---- MODULE Spec2Model ----
\* Model of the milbench simulation core: BaseEnv (base_env.py), the Robot
\* control decoding (entities.py) and the parts of the Viewer (gym_render.py)
\* that BaseEnv drives.
\*
\* Units.  Python floats are modelled by scaled integers:
\*   scores            in units of 1/ScoreDen
\*   lengths / speeds  in units of 0.1          (ROBOT_RAD = 0.2 is 2)
\*   turn rates        in units of 0.1 rad      (1.5 is 15)
\*   finger angles     in units of pi/8         (the two rotation limits)
\*   time steps        by their inverse, 1/dt   (dt = 1/fps/10 is fps*10)
\* Python's None is modelled by NoneVal for integer fields and by 0 for
\* object references (objects are numbered from 1).
EXTENDS Integers, Sequences, FiniteSets, TLC

\* ---------------------------------------------------------------- bounds
MaxEpisodeStepsArg == 2   \* largest max_episode_steps an env is built with
MaxSteps == 2             \* step() calls explored after one reset()
MaxResets == 2            \* reset() calls explored
MaxHookEntities == 2      \* entities a scenario's on_reset() adds
MaxPhysStepsArg == 1      \* largest non-default phys_steps argument

NoneVal == 0 - 1

\* ------------------------------------------------------ RobotAction flags
NONE == 0
UP == 1
DOWN == 2
LEFT == 4
RIGHT == 8
OPEN == 16
CLOSE == 32

FlagBits == {UP, DOWN, LEFT, RIGHT, OPEN, CLOSE}
AllMasks == 0..63

\* Python truth value of (mask & flag) for a single-bit flag
HasFlag(mask, flag) == (mask \div flag) % 2 = 1

\* Python mask_a | mask_b on IntFlag values
BitOr(a, b) ==
    LET bit(f) == IF HasFlag(a, f) \/ HasFlag(b, f) THEN f ELSE 0
    IN bit(UP) + bit(DOWN) + bit(LEFT) + bit(RIGHT) + bit(OPEN) + bit(CLOSE)

\* ------------------------------------------------------- action encoding
\* The tables ACTION_NUMS_FLAGS_NAMES / ACTION_ID_TO_FLAGS /
\* FLAGS_TO_ACTION_ID are read by base_env.py but are not defined in
\* entities.py; they are modelled from the interface description: one entry
\* per (vertical, horizontal, gripper) combination, index 0 being the null
\* action (NONE, NONE, OPEN) that __main__.py compares against.
VerticalFlags == <<NONE, UP, DOWN>>
HorizontalFlags == <<NONE, LEFT, RIGHT>>
GripperFlags == <<OPEN, CLOSE>>

ValidFlagTriples ==
    {<<VerticalFlags[i], HorizontalFlags[j], GripperFlags[k]>> :
        i \in 1..3, j \in 1..3, k \in 1..2}

ACTION_NUMS_FLAGS_NAMES ==
    [n \in 1..18 |->
        [num |-> n - 1,
         flags |-> <<VerticalFlags[((n - 1) \div 6) + 1],
                     HorizontalFlags[(((n - 1) \div 2) % 3) + 1],
                     GripperFlags[((n - 1) % 2) + 1]>>]]

ACTION_ID_TO_FLAGS ==
    [a \in {ACTION_NUMS_FLAGS_NAMES[n].num : n \in 1..Len(ACTION_NUMS_FLAGS_NAMES)} |->
        (CHOOSE e \in {ACTION_NUMS_FLAGS_NAMES[n] : n \in 1..Len(ACTION_NUMS_FLAGS_NAMES)} :
            e.num = a).flags]

FLAGS_TO_ACTION_ID ==
    [f \in {ACTION_NUMS_FLAGS_NAMES[n].flags : n \in 1..Len(ACTION_NUMS_FLAGS_NAMES)} |->
        (CHOOSE e \in {ACTION_NUMS_FLAGS_NAMES[n] : n \in 1..Len(ACTION_NUMS_FLAGS_NAMES)} :
            e.flags = f).num]

\* spaces.Discrete(len(en.ACTION_NUMS_FLAGS_NAMES)).n
action_space_n == Len(ACTION_NUMS_FLAGS_NAMES)

ActionIds == 0..(action_space_n - 1)

\* variant: the table is read one entry too far
action_to_flags_shifted(int_action) ==
    ACTION_ID_TO_FLAGS[(int_action + 1) % action_space_n]

\* BaseEnv.action_to_flags
action_to_flags(int_action) == ACTION_ID_TO_FLAGS[int_action]

\* BaseEnv.flags_to_action
flags_to_action(flags) == FLAGS_TO_ACTION_ID[<<flags[1], flags[2], flags[3]>>]

\* ----------------------------------------------------------------- Robot
ROBOT_RAD == 2                  \* 0.2
finger_rot_limit_outer == 1     \* pi/8
finger_rot_limit_inner == 1     \* pi/8
UpSpeedFactor == 4              \* 4.0 * radius
DownSpeedFactor == 3            \* 3.0 * radius
TurnStep == 15                  \* 1.5

\* Robot.__init__ followed by Robot.setup (which sets target_finger_angle)
NewRobot(radius) ==
    [radius |-> radius,
     rel_turn_angle |-> 0,
     target_speed |-> 0,
     target_finger_angle |-> 0]

\* variant: target_speed is not zeroed at the start of the call and the
\* UP-with-DOWN case is not cancelled
set_action_accumulating(rb, move_action) ==
    LET up == HasFlag(move_action, UP)
        down == HasFlag(move_action, DOWN)
        speed0 == rb.target_speed
        speed1 == IF up THEN speed0 + UpSpeedFactor * rb.radius ELSE speed0
        speed2 == IF down THEN speed1 - DownSpeedFactor * rb.radius ELSE speed1
        turn1 == IF HasFlag(move_action, LEFT) THEN TurnStep ELSE 0
        turn2 == IF HasFlag(move_action, RIGHT) THEN turn1 - TurnStep ELSE turn1
        finger == IF HasFlag(move_action, OPEN)
                  THEN finger_rot_limit_outer
                  ELSE IF HasFlag(move_action, CLOSE)
                       THEN 0 - finger_rot_limit_inner
                       ELSE rb.target_finger_angle
    IN [rb EXCEPT !.rel_turn_angle = turn2,
                  !.target_speed = speed2,
                  !.target_finger_angle = finger]

\* variant: releasing the gripper keys lets the fingers spring back, so
\* the target returns to 0 when neither OPEN nor CLOSE is set
set_action_finger_released(rb, move_action) ==
    LET up == HasFlag(move_action, UP)
        down == HasFlag(move_action, DOWN)
        speed1 == IF up THEN UpSpeedFactor * rb.radius ELSE 0
        speed2 == IF down THEN speed1 - DownSpeedFactor * rb.radius ELSE speed1
        speed3 == IF up /\ down THEN 0 ELSE speed2
        turn1 == IF HasFlag(move_action, LEFT) THEN TurnStep ELSE 0
        turn2 == IF HasFlag(move_action, RIGHT) THEN turn1 - TurnStep ELSE turn1
        finger == IF HasFlag(move_action, OPEN)
                  THEN finger_rot_limit_outer
                  ELSE IF HasFlag(move_action, CLOSE)
                       THEN 0 - finger_rot_limit_inner
                       ELSE 0
    IN [rb EXCEPT !.rel_turn_angle = turn2,
                  !.target_speed = speed3,
                  !.target_finger_angle = finger]

\* variant: the later test of each pair assigns instead of adjusting, so
\* RIGHT overrides LEFT and CLOSE overrides OPEN
set_action_last_flag_wins(rb, move_action) ==
    LET up == HasFlag(move_action, UP)
        down == HasFlag(move_action, DOWN)
        speed1 == IF up THEN UpSpeedFactor * rb.radius ELSE 0
        speed2 == IF down THEN speed1 - DownSpeedFactor * rb.radius ELSE speed1
        speed3 == IF up /\ down THEN 0 ELSE speed2
        turn1 == IF HasFlag(move_action, LEFT) THEN TurnStep ELSE 0
        turn2 == IF HasFlag(move_action, RIGHT) THEN 0 - TurnStep ELSE turn1
        finger1 == IF HasFlag(move_action, OPEN)
                   THEN finger_rot_limit_outer
                   ELSE rb.target_finger_angle
        finger2 == IF HasFlag(move_action, CLOSE)
                   THEN 0 - finger_rot_limit_inner
                   ELSE finger1
    IN [rb EXCEPT !.rel_turn_angle = turn2,
                  !.target_speed = speed3,
                  !.target_finger_angle = finger2]

\* Robot.set_action, statement by statement
set_action(rb, move_action) ==
    LET up == HasFlag(move_action, UP)
        down == HasFlag(move_action, DOWN)
        turn0 == 0
        speed0 == 0
        speed1 == IF up THEN speed0 + UpSpeedFactor * rb.radius ELSE speed0
        speed2 == IF down THEN speed1 - DownSpeedFactor * rb.radius ELSE speed1
        speed3 == IF up /\ down THEN 0 ELSE speed2
        turn1 == IF HasFlag(move_action, LEFT) THEN turn0 + TurnStep ELSE turn0
        turn2 == IF HasFlag(move_action, RIGHT) THEN turn1 - TurnStep ELSE turn1
        finger == IF HasFlag(move_action, OPEN)
                  THEN finger_rot_limit_outer
                  ELSE IF HasFlag(move_action, CLOSE)
                       THEN 0 - finger_rot_limit_inner
                       ELSE rb.target_finger_angle
    IN [rb EXCEPT !.rel_turn_angle = turn2,
                  !.target_speed = speed3,
                  !.target_finger_angle = finger]

\* Finger angles are kept in millionths of a radian and motor rates in
\* millionths of a radian per second; the finger target stays in units of
\* pi/8, the unit of finger_rot_limit_outer and finger_rot_limit_inner.
AngleUnit == 392699             \* math.pi / 8
RateGain == 10                  \* angle_error * 10
RateLimit == 1000000            \* max(-1, min(1, ...))
RateEps == 100                  \* 1e-4
FingerSides == <<0 - 1, 1>>     \* zip(..., [-1, 1])

\* the fields Robot.setup adds for the two fingers: finger_body.angle less
\* robot_body.angle, and finger_motor.rate
RobotWithFingers(rb) ==
    [radius |-> rb.radius,
     rel_turn_angle |-> rb.rel_turn_angle,
     target_speed |-> rb.target_speed,
     target_finger_angle |-> rb.target_finger_angle,
     finger_rel_angle |-> <<0, 0>>,
     finger_motor_rate |-> <<0, 0>>]

Abs(x) == IF x < 0 THEN 0 - x ELSE x
Max(a, b) == IF a >= b THEN a ELSE b
Min(a, b) == IF a <= b THEN a ELSE b

\* variant: both fingers are driven towards the same signed target
finger_target_rate_same_side(rel_angle, finger_side, target) ==
    LET angle_error == rel_angle - target * AngleUnit
        target_rate == Max(0 - RateLimit, Min(RateLimit, angle_error * RateGain))
    IN IF Abs(target_rate) < RateEps THEN 0 ELSE target_rate

\* the body of the loop in Robot.update for one finger
finger_target_rate(rel_angle, finger_side, target) ==
    LET angle_error == rel_angle + finger_side * target * AngleUnit
        target_rate == Max(0 - RateLimit, Min(RateLimit, angle_error * RateGain))
    IN IF Abs(target_rate) < RateEps THEN 0 ELSE target_rate

\* Robot.update: the part that drives the finger motors
Robot_update(rb) ==
    [rb EXCEPT !.finger_motor_rate =
        [k \in 1..2 |-> finger_target_rate(rb.finger_rel_angle[k],
                                           FingerSides[k],
                                           rb.target_finger_angle)]]


\* ------------------------------------------------------------ environment
VARIABLES
    max_episode_steps,  \* constructor argument; NoneVal is None
    phys_steps,         \* constructor argument
    fps,                \* constructor argument
    rand_dynamics,      \* constructor argument
    res_hw,             \* constructor argument, <<height, width>>
    episode_steps,      \* self._episode_steps; NoneVal before the first reset
    entities,           \* self._entities, a sequence of [kind, ep]
    space,              \* self._space: 0 is None, n the space made by reset n
    space_objs,         \* what was handed to self._space.add(), in order
    robot,              \* self._robot: index into entities, 0 is None
    robot_st,           \* fields of the Robot that self._robot refers to
    phys_vars,          \* self._phys_vars: <<>> is None, else the five limits
    rng,                \* self.rng: the RandomState's [seed, pos]
    np_random,          \* numpy's process-wide generator: values drawn so far
    viewer,             \* self.viewer: 0 is None, n the viewer made by reset n
    viewer_st,          \* fields of that Viewer
    registry,           \* _REGISTERED, gym's registry, DEMO_ENVS_TO_TEST_ENVS_MAP
    last_call,          \* the public method called last
    ret,                \* what that call returned or raised
    frame,              \* the image that call got from Viewer.render
    trace,              \* the calls that call made, in order
    hook_in,            \* what the scenario hooks did during that call
    last_action,        \* action index given to the last step(), with flags
    reset_calls,        \* number of reset() calls so far
    steps_since_reset,  \* number of step() calls since the last reset() call
    hist                \* history: render() calls in a row, how rng was seeded

vars == <<max_episode_steps, phys_steps, fps, rand_dynamics, res_hw,
          episode_steps, entities, space, space_objs, robot, robot_st,
          phys_vars, rng, np_random, viewer, viewer_st, registry,
          last_call, ret, frame, trace, hook_in, last_action, reset_calls,
          steps_since_reset, hist>>

config_vars == <<max_episode_steps, phys_steps, fps, rand_dynamics, res_hw>>

\* what lives outside the environment object
process_vars == <<np_random, registry>>

DefaultPhysSteps == 10      \* phys_steps=10 in BaseEnv.__init__
DefaultFps == 20            \* fps=20 in BaseEnv.__init__
RegisteredFps == 8          \* fps=8 in register_envs' common_kwargs
DefaultResHw == <<256, 256>>    \* res_hw=(256, 256) in BaseEnv.__init__
DEFAULT_RES == <<384, 384>>     \* res_hw=DEFAULT_RES in common_kwargs
ScoreDen == 2               \* scores are modelled in halves
ScoreVals == (0 - 1)..(ScoreDen + 1)

\* values the constructor arguments are drawn from: any step limit, with
\* the constructor's defaults, with the arguments register_envs() passes
\* (res_hw=DEFAULT_RES, fps=8, phys_steps=10, rand_dynamics off or on), or
\* with a phys_steps of the caller's own
EpisodeStepsArgs == {NoneVal} \cup (1..MaxEpisodeStepsArg)
PhysicsArgs ==
    {[phys_steps |-> DefaultPhysSteps, fps |-> DefaultFps,
      rand_dynamics |-> FALSE, res_hw |-> DefaultResHw],
     [phys_steps |-> DefaultPhysSteps, fps |-> RegisteredFps,
      rand_dynamics |-> FALSE, res_hw |-> DEFAULT_RES],
     [phys_steps |-> DefaultPhysSteps, fps |-> RegisteredFps,
      rand_dynamics |-> TRUE, res_hw |-> DEFAULT_RES]}
    \cup {[phys_steps |-> k, fps |-> DefaultFps, rand_dynamics |-> FALSE,
           res_hw |-> DefaultResHw] : k \in 1..MaxPhysStepsArg}

\* what a call hands back
Returned(obs) ==
    [kind |-> "obs", exc |-> "", obs |-> obs, reward |-> 0, done |-> FALSE,
     info_keys |-> {}, eval_score |-> 0, value |-> <<>>]
ReturnedTuple(obs, reward, done, info_keys, eval_score) ==
    [kind |-> "tuple", exc |-> "", obs |-> obs, reward |-> reward,
     done |-> done, info_keys |-> info_keys, eval_score |-> eval_score,
     value |-> <<>>]
Raised(exc) ==
    [kind |-> "raise", exc |-> exc, obs |-> "-", reward |-> 0, done |-> FALSE,
     info_keys |-> {}, eval_score |-> 0, value |-> <<>>]
ReturnedNothing ==
    [kind |-> "void", exc |-> "", obs |-> "-", reward |-> 0, done |-> FALSE,
     info_keys |-> {}, eval_score |-> 0, value |-> <<>>]
\* a call that hands back a plain value: seed()'s list, register_envs()' flag
ReturnedValue(value) ==
    [kind |-> "value", exc |-> "", obs |-> "-", reward |-> 0, done |-> FALSE,
     info_keys |-> {}, eval_score |-> 0, value |-> value]

Event(ev, ent, dtInv) == [ev |-> ev, ent |-> ent, dtInv |-> dtInv]

NoHook == [adds |-> <<>>, rv |-> "-", score_calls |-> 0, score |-> 0]

NoRobot ==
    [radius |-> 0, rel_turn_angle |-> 0, target_speed |-> 0,
     target_finger_angle |-> 0]

NoAction == [action |-> NoneVal, flags |-> <<>>, mask |-> NoneVal]

RECURSIVE Repeat(_, _)
Repeat(s, n) == IF n = 0 THEN <<>> ELSE s \o Repeat(s, n - 1)

RECURSIVE SeqsUpTo(_, _)
SeqsUpTo(S, n) ==
    IF n = 0 THEN {<<>>}
    ELSE SeqsUpTo(S, n - 1) \cup
         {Append(s, x) : s \in {t \in SeqsUpTo(S, n - 1) : Len(t) = n - 1}, x \in S}

\* ------------------------------------------------------ random sources
MaxSeed == 3                \* seeds are drawn from 0..MaxSeed
RngDen == 4                 \* a uniform draw is one of RngDen fractions k/RngDen
SeedVals == 0..MaxSeed

\* np.random.randint(0, (1 << 31) - 1): the value numpy's process-wide
\* generator hands out as its n-th (n from 0); one fixed stream per process
NpRandomDraw(n) == (7 * n + 2) % (MaxSeed + 1)

\* np.random.RandomState(seed=seed): a generator whose stream is fixed by
\* its seed; pos counts the values drawn from it
RandomState(seed) == [seed |-> seed, pos |-> 0]

\* the numerator of the next uniform draw of generator r
RandomState_uniform(r) == ((r.seed + 1) * (r.pos + 3) + r.pos * r.pos) % RngDen

\* variant: the seed argument is ignored, the seed always comes from numpy's
\* process-wide generator
seed_value_global(seed, np_pos) == NpRandomDraw(np_pos)

\* if seed is None: seed = np.random.randint(0, (1 << 31) - 1)
seed_value(seed, np_pos) == IF seed = NoneVal THEN NpRandomDraw(np_pos) ELSE seed

\* ---------------------------------------------------- PhysicsVariables
\* PhysVar(default, (low, high)) of the five fields, in units of 0.01, in
\* the order robot_pos_joint_max_force, robot_rot_joint_max_force,
\* robot_finger_max_force, shape_trans_joint_max_force,
\* shape_rot_joint_max_force
PhysVarDefaults == <<300, 100, 400, 150, 10>>
PhysVarLows == <<220, 70, 250, 100, 7>>
PhysVarHighs == <<350, 150, 450, 180, 15>>
NoPhysVars == <<>>

\* PhysicsVariables.defaults(): the nominal set (phys_vars.py is not part of
\* the sources; modelled from the interface description)
PhysicsVariables_defaults == PhysVarDefaults

\* PhysicsVariables.sample(rng): one uniform draw per field from the
\* caller's generator, scaled into the field's range (phys_vars.py is not
\* part of the sources; modelled from the interface description)
PhysicsVariables_sample(r) ==
    [vars |-> [i \in 1..Len(PhysVarDefaults) |->
                  PhysVarLows[i]
                    + ((PhysVarHighs[i] - PhysVarLows[i])
                         * RandomState_uniform([r EXCEPT !.pos = @ + i - 1]))
                      \div RngDen],
     rng |-> [r EXCEPT !.pos = @ + Len(PhysVarDefaults)]]

\* variant: a set is sampled on every reset and thrown away when
\* rand_dynamics is off
reset_phys_vars_sample_first(rand, r) ==
    [vars |-> IF rand THEN PhysicsVariables_sample(r).vars
              ELSE PhysicsVariables_defaults,
     rng |-> PhysicsVariables_sample(r).rng]

\* if self.rand_dynamics: PhysicsVariables.sample(self.rng) else defaults()
reset_phys_vars(rand, r) ==
    IF rand
    THEN PhysicsVariables_sample(r)
    ELSE [vars |-> PhysicsVariables_defaults, rng |-> r]

\* ------------------------------------------------- entities' setup()
NoForce == NoneVal          \* max_force left at the library's default

\* objects handed to space.add(): a body with its type, a joint with the
\* max_force assigned to it (units of 0.01), a collision shape with the
\* type of the body it is attached to; owner is the entity's list index
Body(name, body_type, owner) ==
    [cls |-> "Body", name |-> name, body_type |-> body_type,
     max_force |-> NoForce, owner |-> owner]
Joint(name, max_force, owner) ==
    [cls |-> "Joint", name |-> name, body_type |-> "-",
     max_force |-> max_force, owner |-> owner]
CollisionShape(name, body_type, owner) ==
    [cls |-> "Shape", name |-> name, body_type |-> body_type,
     max_force |-> NoForce, owner |-> owner]

\* a Geom handed to viewer.add_geom() or viewer.add_onetime(); owner is the
\* entity's list index (0: added by the viewer's caller), ep its episode
Geom(name, owner, ep) == [name |-> name, owner |-> owner, ep |-> ep]

\* the body of Robot.setup's `for finger_side in [-1, 1]`
Robot_setup_finger(owner) ==
    <<Body("finger_body", "dynamic", owner),
      Joint("finger_pin", NoForce, owner),
      Joint("finger_limit", NoForce, owner),
      Joint("finger_motor", 200, owner)>>

\* Robot.setup: the space.add() calls, then the viewer.add_geom() calls
Robot_setup(owner, ep) ==
    [exc |-> "",
     objs |-> <<Body("robot_body", "dynamic", owner),
                Body("control_body", "kinematic", owner),
                Joint("pos_control_joint", 300, owner),
                Joint("rot_control_joint", 100, owner)>>
              \o Robot_setup_finger(owner) \o Robot_setup_finger(owner)
              \o <<CollisionShape("body_shape", "dynamic", owner),
                   CollisionShape("buffer_shape", "dynamic", owner),
                   CollisionShape("finger_shape", "dynamic", owner),
                   CollisionShape("finger_shape", "dynamic", owner)>>,
     geoms |-> <<Geom("robot_compound", owner, ep),
                 Geom("finger_geom", owner, ep),
                 Geom("finger_geom", owner, ep)>>]

\* ArenaBoundaries.setup: four segments on a static body that is itself
\* not handed to the space; nothing for the viewer
ArenaBoundaries_setup(owner, ep) ==
    [exc |-> "",
     objs |-> [i \in 1..4 |-> CollisionShape("arena_segment", "static", owner)],
     geoms |-> <<>>]

\* Shape.setup for the shape types it implements
Shape_setup(owner, ep) ==
    [exc |-> "",
     objs |-> <<Body("shape_body", "dynamic", owner),
                CollisionShape("shape", "dynamic", owner),
                Joint("trans_joint", 150, owner),
                Joint("rot_joint", 10, owner)>>,
     geoms |-> <<Geom("shape_compound", owner, ep)>>]

\* Shape.setup for any other shape type: the else branch raises before the
\* first space.add()
Shape_setup_unknown_type(owner, ep) ==
    [exc |-> "NotImplementedError", objs |-> <<>>, geoms |-> <<>>]

SetupArgsPassed == 3        \* entity.setup(self.viewer, self._space, self._phys_vars)
EntitySetupParams == 2      \* def setup(self, viewer, space)

\* binding of a call's positional arguments to a `def` with nparams
\* parameters besides self, none of them with a default
call_accepted(nargs, nparams) == nargs = nparams

\* entity.setup(...) for an entity of this kind whose setup takes nparams
\* arguments: every variant hands its arguments on to Entity.setup first
Entity_setup(kind, owner, ep, nparams) ==
    IF ~call_accepted(SetupArgsPassed, nparams)
    THEN [exc |-> "TypeError", objs |-> <<>>, geoms |-> <<>>]
    ELSE CASE kind = "Robot" -> Robot_setup(owner, ep)
           [] kind = "ArenaBoundaries" -> ArenaBoundaries_setup(owner, ep)
           [] kind = "Shape" -> Shape_setup(owner, ep)
           [] OTHER -> Shape_setup_unknown_type(owner, ep)

\* --------------------------------------------------------------- Viewer
NoViewer == [geoms |-> <<>>, onetime_geoms |-> <<>>, buffer_hw |-> <<0, 0>>]
NoFrame == [shape |-> <<>>, drawn |-> <<>>]

\* Viewer.__init__(width, height, visible): the window system hands out a
\* colour buffer that is border pixels smaller than asked for, each way
Viewer_init(width, height, border) ==
    [geoms |-> <<>>, onetime_geoms |-> <<>>,
     buffer_hw |-> <<height - border, width - border>>]

\* variant: only the transient list is emptied
reset_geoms_onetime_only(v) == [v EXCEPT !.onetime_geoms = <<>>]

\* Viewer.reset_geoms
reset_geoms(v) == [v EXCEPT !.geoms = <<>>, !.onetime_geoms = <<>>]

\* Viewer.add_geom
add_geom(v, geom) == [v EXCEPT !.geoms = Append(@, geom)]

\* Viewer.add_onetime
add_onetime(v, geom) == [v EXCEPT !.onetime_geoms = Append(@, geom)]

\* geom.render() for each geom of a list; an entity's geom is drawn at the
\* pose its pre_draw() copied from the bodies, pose being the number of
\* frames the space was advanced by in this episode
DrawAll(geoms, pose) ==
    [i \in 1..Len(geoms) |->
        [geom |-> geoms[i], pose |-> IF geoms[i].owner = 0 THEN 0 ELSE pose]]

\* variant: render() does not empty the transient list
Viewer_render_onetime_kept(v, pose) ==
    [arr |-> [shape |-> <<v.buffer_hw[1], v.buffer_hw[2], 3>>,
              drawn |-> DrawAll(v.geoms, pose) \o DrawAll(v.onetime_geoms, pose)],
     viewer |-> v]

\* variant: the persistent list is emptied by render() as well
Viewer_render_forgetful(v, pose) ==
    [arr |-> [shape |-> <<v.buffer_hw[1], v.buffer_hw[2], 3>>,
              drawn |-> DrawAll(v.geoms, pose) \o DrawAll(v.onetime_geoms, pose)],
     viewer |-> [v EXCEPT !.geoms = <<>>, !.onetime_geoms = <<>>]]

\* Viewer.render(return_rgb_array=True): draw geoms, then onetime_geoms;
\* arr has the colour buffer's height and width and three channels;
\* onetime_geoms is emptied
Viewer_render(v, pose) ==
    [arr |-> [shape |-> <<v.buffer_hw[1], v.buffer_hw[2], 3>>,
              drawn |-> DrawAll(v.geoms, pose) \o DrawAll(v.onetime_geoms, pose)],
     viewer |-> [v EXCEPT !.onetime_geoms = <<>>]]

\* ------------------------------------------------------------ registry
\* the benchmarks module as imported: _REGISTERED = False, an empty
\* DEMO_ENVS_TO_TEST_ENVS_MAP (a function from demo names to tuples of
\* test names), and nothing of this package in gym's registry
NoRegistry == [registered |-> FALSE, envs |-> {}, demo_to_test |-> <<>>]

\* history of an environment just built: no render() yet, its generator
\* seeded without a seed argument by the one value it drew from numpy's
\* generator, no reset() since, no register_envs() call
NoHist == [counting |-> FALSE, renders_in_row |-> 0, seed_arg |-> NoneVal,
           own_np_draws |-> 1, resets_since_seed |-> 0, register_calls |-> 0]

\* BaseEnv.__init__(res_hw, fps, phys_steps, max_episode_steps,
\* rand_dynamics) has returned, in a process whose numpy generator had not
\* been drawn from (self.seed() draws its first value); counting says
\* whether the history counts render() calls
Constructed(max_steps, args, counting) ==
    /\ max_episode_steps = max_steps
    /\ phys_steps = args.phys_steps
    /\ fps = args.fps
    /\ rand_dynamics = args.rand_dynamics
    /\ res_hw = args.res_hw
    /\ episode_steps = NoneVal
    /\ entities = <<>>
    /\ space = 0
    /\ space_objs = <<>>
    /\ robot = 0
    /\ robot_st = NoRobot
    /\ phys_vars = NoPhysVars
    /\ rng = RandomState(seed_value(NoneVal, 0))
    /\ np_random = 1
    /\ viewer = 0
    /\ viewer_st = NoViewer
    /\ registry = NoRegistry
    /\ last_call = "__init__"
    /\ ret = ReturnedNothing
    /\ frame = NoFrame
    /\ trace = <<>>
    /\ hook_in = NoHook
    /\ last_action = NoAction
    /\ reset_calls = 0
    /\ steps_since_reset = 0
    /\ hist = [NoHist EXCEPT !.counting = counting]

\* the state after construction
Init ==
    \E max_steps \in EpisodeStepsArgs, args \in PhysicsArgs :
        Constructed(max_steps, args, FALSE)

\* ---------------------------------------------------------------- reset
\* variant: the old entity list is kept
reset_entities_keep(old) == old

\* self._entities = [] at the start of reset()
reset_entities(old) == <<>>

\* variant: the old space is kept
reset_space_keep(old) == old

\* self._space = pm.Space(): nothing of the old space is in the new one
reset_space(old) == <<>>

\* BaseEnv.add_entities: for each entity, remember it as the robot if it is
\* one, append it, set it up; an exception raised by setup() ends the loop.
\* st is [entities, robot, trace, space_objs, geoms, exc]; nparams is the
\* number of arguments the entities' setup() takes.
RECURSIVE add_entities(_, _, _)
add_entities(st, new, nparams) ==
    IF new = <<>> \/ st.exc # "" THEN st
    ELSE LET entity == Head(new)
             idx == Len(st.entities) + 1
             done == Entity_setup(entity.kind, idx, entity.ep, nparams)
         IN add_entities(
                [entities |-> Append(st.entities, entity),
                 robot |-> IF entity.kind = "Robot" THEN idx ELSE st.robot,
                 trace |-> Append(st.trace, Event("setup", idx, 0)),
                 space_objs |-> st.space_objs \o done.objs,
                 geoms |-> st.geoms \o done.geoms,
                 exc |-> done.exc],
                Tail(new), nparams)

\* variant: the hook's return value is not checked
reset_rv_ok_any(rv) == TRUE

\* assert reset_rv is None
reset_rv_ok(rv) == rv = "None"

\* assert isinstance(self._robot, en.Robot)
robot_ok(rb) == rb # 0

\* the for-loop of BaseEnv.render
PreDraws(ents) == [i \in 1..Len(ents) |-> Event("pre_draw", i, 0)]

\* variant: the viewer draws before the entities' pre_draw()
RenderRgb_draw_first(ents) == <<Event("viewer.render", 0, 0)>> \o PreDraws(ents)

\* BaseEnv.render(mode='rgb_array') on an existing viewer
RenderRgb(ents) == PreDraws(ents) \o <<Event("viewer.render", 0, 0)>>

\* BaseEnv.reset, with the scenario's on_reset() adding the entities of
\* kinds adds and returning rv, the entities' setup() taking nparams
\* arguments, and a window system that keeps border pixels of a new window
ResetWith(adds, rv, nparams, border) ==
    /\ reset_calls < MaxResets
    /\ LET ep == reset_calls + 1
           viewer0 == IF viewer = 0
                      THEN Viewer_init(res_hw[2], res_hw[1], border)
                      ELSE reset_geoms(viewer_st)
           start == [entities |-> reset_entities(entities), robot |-> 0,
                     trace |-> <<>>, space_objs |-> reset_space(space_objs),
                     geoms |-> viewer0.geoms, exc |-> ""]
       IN \E sampled \in {reset_phys_vars(rand_dynamics, rng)},
             arena \in {add_entities(start,
                                     <<[kind |-> "ArenaBoundaries", ep |-> ep]>>,
                                     nparams)} :
          \E hooked \in {add_entities(
                             [arena EXCEPT !.trace =
                                 IF arena.exc = ""
                                 THEN Append(@, Event("on_reset", 0, 0))
                                 ELSE @],
                             [i \in 1..Len(adds) |-> [kind |-> adds[i], ep |-> ep]],
                             nparams)} :
          LET ok == /\ hooked.exc = ""
                    /\ reset_rv_ok(rv)
                    /\ robot_ok(hooked.robot)
                    /\ Len(hooked.entities) >= 1
              viewer1 == [viewer0 EXCEPT !.geoms = hooked.geoms]
          IN /\ episode_steps' = 0
             /\ viewer' = IF viewer = 0 THEN ep ELSE viewer
             /\ space' = ep
             /\ space_objs' = hooked.space_objs
             /\ phys_vars' = sampled.vars
             /\ rng' = sampled.rng
             /\ entities' = hooked.entities
             /\ robot' = hooked.robot
             /\ robot_st' = IF hooked.robot = 0 THEN NoRobot ELSE NewRobot(ROBOT_RAD)
             /\ hook_in' = IF arena.exc # "" THEN NoHook
                           ELSE [NoHook EXCEPT !.adds = adds,
                                               !.rv = IF hooked.exc = "" THEN rv
                                                      ELSE "-"]
             /\ IF ok
                THEN \E shot \in {Viewer_render(viewer1, 0)} :
                     /\ trace' = hooked.trace \o <<Event("viewer.set_bounds", 0, 0)>>
                                   \o RenderRgb(hooked.entities)
                     /\ ret' = Returned("rgb")
                     /\ viewer_st' = shot.viewer
                     /\ frame' = shot.arr
                ELSE /\ trace' = hooked.trace
                     /\ ret' = Raised(IF hooked.exc # "" THEN hooked.exc
                                      ELSE "AssertionError")
                     /\ viewer_st' = viewer1
                     /\ frame' = NoFrame
             /\ last_call' = "reset"
             /\ last_action' = NoAction
             /\ reset_calls' = ep
             /\ steps_since_reset' = 0
             /\ hist' = [hist EXCEPT !.renders_in_row = 0,
                                     !.resets_since_seed = @ + 1]
    /\ UNCHANGED config_vars
    /\ UNCHANGED process_vars

\* BaseEnv.reset with entities whose setup() takes the three arguments
\* add_entities passes, and a window of the size asked for
Reset(adds, rv) == ResetWith(adds, rv, SetupArgsPassed, 0)

\* ----------------------------------------------------------------- step
\* variant: the space is stepped before the entities are updated
PhysRound_step_first(ents, dtInv) ==
    <<Event("space.step", 0, dtInv)>>
        \o [i \in 1..Len(ents) |-> Event("update", i, dtInv)]

\* BaseEnv._phys_steps_on_frame: rounds of (update every entity, step the
\* space), each with dt = spf / phys_steps
PhysRound(ents, dtInv) ==
    [i \in 1..Len(ents) |-> Event("update", i, dtInv)]
        \o <<Event("space.step", 0, dtInv)>>

phys_steps_on_frame(ents) ==
    LET local_phys_steps == 10
        dtInv == fps * local_phys_steps
    IN Repeat(PhysRound(ents, dtInv), local_phys_steps)

\* variant: a shaped reward, a penalty for every step taken
step_reward_shaped == 0 - 1

\* reward = 0.0
step_reward == 0

\* variant: done only on the step that reaches the threshold
step_done_at_threshold(steps, max_steps) ==
    /\ max_steps # NoneVal
    /\ steps = max_steps

\* variant: strict comparison with the step limit
step_done_strict(steps, max_steps) ==
    FALSE \/ (max_steps # NoneVal /\ steps > max_steps)

\* done = False; if max_episode_steps is not None: done = done or steps >= max
step_done(steps, max_steps) ==
    FALSE \/ (max_steps # NoneVal /\ steps >= max_steps)

\* variant: the hook is consulted on every step
score_hook_always(done) == TRUE

\* if done: eval_score = self.score_on_end_of_traj()
score_hook_called(done) == done

\* variant: only the lower end is asserted
score_in_range_no_upper(score) == 0 <= score

\* assert 0 <= eval_score <= 1
score_in_range(score) == 0 <= score /\ score <= 1 * ScoreDen

\* info = {}; info.update(eval_score=eval_score)
step_info_keys == {} \cup {"eval_score"}

\* variant: render() goes on to the entities without looking at self.viewer
StepRender_viewer_unchecked == RenderRgb(entities)

\* BaseEnv.render(mode='rgb_array') as step() calls it
StepRender == IF viewer = 0 THEN <<>> ELSE RenderRgb(entities)
StepObs == IF viewer = 0 THEN "None" ELSE "rgb"

\* what that render() does to the viewer and which image it returns, the
\* space having been advanced by `pose` frames
StepShot(pose) ==
    IF viewer = 0
    THEN [arr |-> NoFrame, viewer |-> viewer_st]
    ELSE Viewer_render(viewer_st, pose)

\* BaseEnv.step on an environment without a robot: self._robot.set_action
\* raises before anything is changed
StepNoRobot(action) ==
    /\ steps_since_reset < MaxSteps
    /\ robot = 0
    /\ LET flags == action_to_flags(action)
           action_flag == BitOr(BitOr(BitOr(NONE, flags[1]), flags[2]), flags[3])
       IN last_action' = [action |-> action, flags |-> flags, mask |-> action_flag]
    /\ ret' = Raised("AttributeError")
    /\ frame' = NoFrame
    /\ trace' = <<>>
    /\ hook_in' = NoHook
    /\ last_call' = "step"
    /\ steps_since_reset' = steps_since_reset + 1
    /\ hist' = [hist EXCEPT !.renders_in_row = 0]
    /\ UNCHANGED <<episode_steps, entities, space, space_objs, robot, robot_st,
                   phys_vars, rng, viewer, viewer_st, reset_calls>>
    /\ UNCHANGED config_vars
    /\ UNCHANGED process_vars

\* BaseEnv.step; the scenario's score_on_end_of_traj() returns some score
Step(action) ==
    /\ steps_since_reset < MaxSteps
    /\ robot # 0
    /\ LET flags == action_to_flags(action)
           action_flag == BitOr(BitOr(BitOr(NONE, flags[1]), flags[2]), flags[3])
           steps == episode_steps + 1
           done == step_done(steps, max_episode_steps)
           reward == step_reward
       IN \E phys \in {<<Event("set_action", robot, 0)>>
                          \o phys_steps_on_frame(entities)},
             shot \in {StepShot(steps)} :
          /\ last_action' = [action |-> action, flags |-> flags, mask |-> action_flag]
          /\ robot_st' = set_action(robot_st, action_flag)
          /\ episode_steps' = steps
          /\ IF score_hook_called(done)
             THEN \E score \in ScoreVals :
                    /\ hook_in' = [NoHook EXCEPT !.score_calls = 1, !.score = score]
                    /\ IF score_in_range(score)
                       THEN /\ trace' = phys \o <<Event("score_on_end_of_traj", 0, 0)>>
                                          \o StepRender
                            /\ ret' = ReturnedTuple(StepObs, reward, done,
                                                    step_info_keys, score)
                            /\ viewer_st' = shot.viewer
                            /\ frame' = shot.arr
                       ELSE /\ trace' = phys \o <<Event("score_on_end_of_traj", 0, 0)>>
                            /\ ret' = Raised("AssertionError")
                            /\ viewer_st' = viewer_st
                            /\ frame' = NoFrame
             ELSE /\ hook_in' = NoHook
                  /\ trace' = phys \o StepRender
                  /\ ret' = ReturnedTuple(StepObs, reward, done, step_info_keys, 0)
                  /\ viewer_st' = shot.viewer
                  /\ frame' = shot.arr
    /\ last_call' = "step"
    /\ steps_since_reset' = steps_since_reset + 1
    /\ hist' = [hist EXCEPT !.renders_in_row = 0]
    /\ UNCHANGED <<entities, space, space_objs, robot, phys_vars, rng, viewer,
                   reset_calls>>
    /\ UNCHANGED config_vars
    /\ UNCHANGED process_vars

\* --------------------------------------------------------- render, close
RenderModes == {"human", "rgb_array", "ansi"}

\* render() calls made in a row, this one included (counted up to two);
\* kept only in histories that count them
RendersInRow ==
    IF ~hist.counting THEN 0
    ELSE IF hist.renders_in_row < 2 THEN hist.renders_in_row + 1 ELSE 2

\* BaseEnv.render without a viewer
RenderNoViewer(mode) ==
    /\ viewer = 0
    /\ last_call' = "render"
    /\ ret' = Returned("None")
    /\ frame' = NoFrame
    /\ trace' = <<>>
    /\ hook_in' = NoHook
    /\ hist' = [hist EXCEPT !.renders_in_row = RendersInRow]
    /\ UNCHANGED <<episode_steps, entities, space, space_objs, robot, robot_st,
                   phys_vars, rng, viewer, viewer_st, last_action, reset_calls,
                   steps_since_reset>>
    /\ UNCHANGED config_vars
    /\ UNCHANGED process_vars

\* BaseEnv.render with a viewer
Render(mode) ==
    /\ viewer # 0
    /\ last_call' = "render"
    /\ hook_in' = NoHook
    /\ \E shot \in {Viewer_render(viewer_st, episode_steps)} :
          IF mode = "human"
          THEN /\ trace' = PreDraws(entities)
                             \o <<Event("window.set_visible", 0, 0),
                                  Event("viewer.render", 0, 0)>>
               /\ ret' = Returned("rgb")
               /\ viewer_st' = shot.viewer
               /\ frame' = shot.arr
          ELSE IF mode = "rgb_array"
          THEN /\ trace' = RenderRgb(entities)
               /\ ret' = Returned("rgb")
               /\ viewer_st' = shot.viewer
               /\ frame' = shot.arr
          ELSE /\ trace' = PreDraws(entities)
               /\ ret' = Raised("AssertionError")
               /\ viewer_st' = viewer_st
               /\ frame' = NoFrame
    /\ hist' = [hist EXCEPT !.renders_in_row = RendersInRow]
    /\ UNCHANGED <<episode_steps, entities, space, space_objs, robot, robot_st,
                   phys_vars, rng, viewer, last_action, reset_calls,
                   steps_since_reset>>
    /\ UNCHANGED config_vars
    /\ UNCHANGED process_vars

\* BaseEnv.close
Close ==
    /\ last_call' = "close"
    /\ ret' = ReturnedNothing
    /\ frame' = NoFrame
    /\ hook_in' = NoHook
    /\ IF viewer # 0
       THEN /\ trace' = <<Event("viewer.close", 0, 0)>>
            /\ viewer' = 0
            /\ viewer_st' = NoViewer
       ELSE /\ trace' = <<>>
            /\ UNCHANGED <<viewer, viewer_st>>
    /\ hist' = [hist EXCEPT !.renders_in_row = 0]
    /\ UNCHANGED <<episode_steps, entities, space, space_objs, robot, robot_st,
                   phys_vars, rng, last_action, reset_calls, steps_since_reset>>
    /\ UNCHANGED config_vars
    /\ UNCHANGED process_vars

\* ------------------------------------------------------- specification
EntityKinds == {"Robot", "Shape"}
HookReturns == {"None", "tuple"}
\* the entities a scenario's on_reset() passes to add_entities, in order
HookAdds == SeqsUpTo(EntityKinds, MaxHookEntities)
\* actions given to step(): between them they press every flag
\* (0: NONE/NONE/OPEN, 9: UP/LEFT/CLOSE, 16: DOWN/RIGHT/OPEN)
StepActions == {0, 9, 16}

Next ==
    \/ \E adds \in HookAdds, rv \in HookReturns :
           Reset(adds, rv)
    \/ \E action \in StepActions : StepNoRobot(action)
    \/ \E action \in StepActions : Step(action)
    \/ \E mode \in RenderModes : RenderNoViewer(mode)
    \/ \E mode \in RenderModes : Render(mode)
    \/ Close

Spec == Init /\ [][Next]_vars

\* ------------------------------------------------ Robot used on its own
\* A Robot built and set up directly, then driven through set_action.
MaxRadius == 3              \* largest robot radius, in units of 0.1

InitRobot ==
    /\ max_episode_steps = NoneVal
    /\ phys_steps = DefaultPhysSteps
    /\ fps = DefaultFps
    /\ rand_dynamics = FALSE
    /\ res_hw = DefaultResHw
    /\ episode_steps = NoneVal
    /\ entities = <<>>
    /\ space = 0
    /\ space_objs = <<>>
    /\ robot = 0
    /\ \E radius \in 1..MaxRadius : robot_st = RobotWithFingers(NewRobot(radius))
    /\ phys_vars = NoPhysVars
    /\ rng = RandomState(seed_value(NoneVal, 0))
    /\ np_random = 1
    /\ viewer = 0
    /\ viewer_st = NoViewer
    /\ registry = NoRegistry
    /\ last_call = "Robot.setup"
    /\ ret = ReturnedNothing
    /\ frame = NoFrame
    /\ trace = <<>>
    /\ hook_in = NoHook
    /\ last_action = NoAction
    /\ reset_calls = 0
    /\ steps_since_reset = 0
    /\ hist = NoHist

RobotSetAction(move_action) ==
    /\ robot_st' = set_action(robot_st, move_action)
    /\ last_action' = [action |-> NoneVal, flags |-> <<>>, mask |-> move_action]
    /\ last_call' = "Robot.set_action"
    /\ UNCHANGED <<episode_steps, entities, space, space_objs, robot, phys_vars,
                   rng, viewer, viewer_st, ret, frame, trace, hook_in,
                   reset_calls, steps_since_reset, hist>>
    /\ UNCHANGED config_vars
    /\ UNCHANGED process_vars

\* relative finger angles the integration of the space leaves behind: at
\* rest, within and on the epsilon of the motor rate, part way, and near
\* either rotary limit
FingerRelAngles ==
    {0, 5, 0 - 10, 50000, AngleUnit - 5, 10 - AngleUnit}

\* The space has moved the fingers to rel_angles; Robot.update then runs.
RobotUpdate(rel_angles) ==
    /\ robot_st' = Robot_update([robot_st EXCEPT !.finger_rel_angle = rel_angles])
    /\ last_call' = "Robot.update"
    /\ UNCHANGED <<episode_steps, entities, space, space_objs, robot, phys_vars,
                   rng, viewer, viewer_st, ret, frame, trace, hook_in,
                   last_action, reset_calls, steps_since_reset, hist>>
    /\ UNCHANGED config_vars
    /\ UNCHANGED process_vars

NextRobot ==
    \/ \E move_action \in AllMasks : RobotSetAction(move_action)
    \/ \E a1 \in FingerRelAngles, a2 \in FingerRelAngles : RobotUpdate(<<a1, a2>>)

SpecRobot == InitRobot /\ [][NextRobot]_vars

\* ----------------------------------------- environment and its window
\* One environment as register_envs() configures it, on window systems that
\* may hand out a smaller colour buffer than asked for, with a caller that
\* also draws transient geoms on the environment's viewer.
MaxOnetime == 1             \* transient geoms waiting to be drawn
\* pixels a window system keeps from a new window: none, or one on each
\* side (a 600 x 400 request answered with 598 x 398)
WindowBorders == {0, 2}

InitViewer ==
    Constructed(NoneVal,
                [phys_steps |-> DefaultPhysSteps, fps |-> RegisteredFps,
                 rand_dynamics |-> FALSE, res_hw |-> DEFAULT_RES],
                TRUE)

\* BaseEnv.reset on a window system that keeps border pixels
ResetOnWindow(adds, rv, border) == ResetWith(adds, rv, SetupArgsPassed, border)

\* Viewer.add_onetime(geom) called on self.viewer (as draw_circle,
\* draw_polygon, draw_polyline and draw_line do)
AddOnetime ==
    /\ viewer # 0
    /\ Len(viewer_st.onetime_geoms) < MaxOnetime
    /\ viewer_st' = add_onetime(viewer_st, Geom("onetime", 0, reset_calls))
    /\ last_call' = "viewer.add_onetime"
    /\ ret' = ReturnedNothing
    /\ frame' = NoFrame
    /\ trace' = <<>>
    /\ hook_in' = NoHook
    /\ hist' = [hist EXCEPT !.renders_in_row = 0]
    /\ UNCHANGED <<episode_steps, entities, space, space_objs, robot, robot_st,
                   phys_vars, rng, viewer, last_action, reset_calls,
                   steps_since_reset>>
    /\ UNCHANGED config_vars
    /\ UNCHANGED process_vars

NextViewer ==
    \/ \E adds \in HookAdds, rv \in HookReturns, border \in WindowBorders :
           ResetOnWindow(adds, rv, border)
    \/ \E action \in StepActions : StepNoRobot(action)
    \/ \E action \in StepActions : Step(action)
    \/ \E mode \in RenderModes : RenderNoViewer(mode)
    \/ \E mode \in RenderModes : Render(mode)
    \/ Close
    \/ AddOnetime

SpecViewer == InitViewer /\ [][NextViewer]_vars

\* --------------------------------------------- environment in a process
\* One environment whose caller registers the benchmark suite and reseeds
\* the environment, in a process where other environments are built too.
MaxNpDraws == 3             \* values drawn from numpy's generator
MaxRegisterCalls == 2       \* register_envs() calls explored

\* names as _ENV_NAME_RE splits them: <prefix><spec>[<suffix>]-v0
EnvName(prefix, spec, suffix) == [prefix |-> prefix, spec |-> spec, suffix |-> suffix]

\* move_to_corner_variants and move_to_region_variants, as (class, suffix);
\* the variant lists of the other classes are built the same way
env_cls_suffix_kwargs ==
    <<EnvName("MoveToCorner", "-Demo", ""),
      EnvName("MoveToCorner", "-TestColour", ""),
      EnvName("MoveToCorner", "-TestShape", ""),
      EnvName("MoveToCorner", "-TestJitter", ""),
      EnvName("MoveToCorner", "-TestDynamics", ""),
      EnvName("MoveToCorner", "-TestAll", ""),
      EnvName("MoveToRegion", "-Demo", ""),
      EnvName("MoveToRegion", "-TestJitter", ""),
      EnvName("MoveToRegion", "-TestColour", ""),
      EnvName("MoveToRegion", "-TestLayout", ""),
      EnvName("MoveToRegion", "-TestDynamics", ""),
      EnvName("MoveToRegion", "-TestAll", ""),
      EnvName("MoveToRegion", "-TestEgo", "")>>

\* keys of DEFAULT_PREPROC_ENTRY_POINT_WRAPPERS
PreprocSuffixes == <<"-LoResStack", "-AtariStyle">>

\* the names the registration loop appends: each variant's own name, then
\* its name with each preprocessor suffix
RECURSIVE NamesOfVariants(_)
NamesOfVariants(variants) ==
    IF variants = <<>> THEN <<>>
    ELSE <<Head(variants)>>
           \o [p \in 1..Len(PreprocSuffixes) |->
                  [Head(variants) EXCEPT !.suffix = PreprocSuffixes[p]]]
           \o NamesOfVariants(Tail(variants))
registered_env_names == NamesOfVariants(env_cls_suffix_kwargs)

\* the debugging environment and its preprocessed forms
debug_env_names ==
    {EnvName("MoveToCorner", "-DebugReward", "")}
        \cup {EnvName("MoveToCorner", "-DebugReward", PreprocSuffixes[p]) :
                 p \in 1..Len(PreprocSuffixes)}

\* EnvName.is_test and EnvName.demo_env_name
is_test(name) == name.spec # "-Demo"
demo_env_name(name) == [name EXCEPT !.spec = "-Demo"]

\* train_to_test_map: each demo name with the tuple of its test names
train_to_test_map ==
    [demo \in {demo_env_name(registered_env_names[i]) :
                 i \in {j \in 1..Len(registered_env_names) :
                           is_test(registered_env_names[j])}} |->
        SelectSeq(registered_env_names,
                  LAMBDA n : is_test(n) /\ demo_env_name(n) = demo)]
observed_demo_envs ==
    {registered_env_names[i] :
        i \in {j \in 1..Len(registered_env_names) :
                  ~is_test(registered_env_names[j])}}

\* dict.update
DictUpdate(old, new) ==
    [k \in (DOMAIN old) \cup (DOMAIN new) |->
        IF k \in DOMAIN new THEN new[k] ELSE old[k]]

\* variant: the flag is not consulted
already_registered_never(flag) == FALSE

\* if _REGISTERED: return False
already_registered(flag) == flag

\* register_envs(): gym.register refuses an id that is in its registry
register_envs(g) ==
    IF already_registered(g.registered)
    THEN [registry |-> g, result |-> ReturnedValue(FALSE)]
    ELSE LET names == {registered_env_names[i] : i \in 1..Len(registered_env_names)}
         IN IF names \cap g.envs # {}
            THEN [registry |-> [g EXCEPT !.registered = TRUE],
                  result |-> Raised("gym.error.Error")]
            ELSE IF observed_demo_envs # DOMAIN train_to_test_map
            THEN [registry |-> [g EXCEPT !.registered = TRUE,
                                         !.envs = @ \cup names],
                  result |-> Raised("AssertionError")]
            ELSE [registry |-> [registered |-> TRUE,
                                envs |-> g.envs \cup names \cup debug_env_names,
                                demo_to_test |-> DictUpdate(g.demo_to_test,
                                                            train_to_test_map)],
                  result |-> ReturnedValue(TRUE)]

RegisterEnvs ==
    /\ hist.register_calls < MaxRegisterCalls
    /\ \E out \in {register_envs(registry)} :
          /\ registry' = out.registry
          /\ ret' = out.result
    /\ last_call' = "register_envs"
    /\ frame' = NoFrame
    /\ trace' = <<>>
    /\ hook_in' = NoHook
    /\ hist' = [hist EXCEPT !.renders_in_row = 0, !.register_calls = @ + 1]
    /\ UNCHANGED <<episode_steps, entities, space, space_objs, robot, robot_st,
                   phys_vars, rng, np_random, viewer, viewer_st, last_action,
                   reset_calls, steps_since_reset>>
    /\ UNCHANGED config_vars

\* BaseEnv.seed(seed); NoneVal is seed=None
Seed(seed) ==
    /\ seed = NoneVal => np_random < MaxNpDraws
    /\ \E value \in {seed_value(seed, np_random)} :
          /\ rng' = RandomState(value)
          /\ ret' = ReturnedValue(<<value>>)
    /\ np_random' = IF seed = NoneVal THEN np_random + 1 ELSE np_random
    /\ last_call' = "seed"
    /\ frame' = NoFrame
    /\ trace' = <<>>
    /\ hook_in' = NoHook
    /\ hist' = [hist EXCEPT !.renders_in_row = 0,
                            !.seed_arg = seed,
                            !.own_np_draws = IF seed = NoneVal THEN @ + 1 ELSE @,
                            !.resets_since_seed = 0]
    /\ UNCHANGED <<episode_steps, entities, space, space_objs, robot, robot_st,
                   phys_vars, viewer, viewer_st, registry, last_action,
                   reset_calls, steps_since_reset>>
    /\ UNCHANGED config_vars

\* another environment of the process is built, or seeded without a seed:
\* its seed() takes the next value of numpy's generator
OtherEnvSeed ==
    /\ np_random < MaxNpDraws
    /\ np_random' = np_random + 1
    /\ UNCHANGED <<episode_steps, entities, space, space_objs, robot, robot_st,
                   phys_vars, rng, viewer, viewer_st, registry, last_call, ret,
                   frame, trace, hook_in, last_action, reset_calls,
                   steps_since_reset, hist>>
    /\ UNCHANGED config_vars

\* the environment as register_envs() configures it, dynamics fixed or
\* randomised
InitProcess ==
    \E rand \in BOOLEAN :
        Constructed(NoneVal,
                    [phys_steps |-> DefaultPhysSteps, fps |-> RegisteredFps,
                     rand_dynamics |-> rand, res_hw |-> DEFAULT_RES],
                    FALSE)

\* the scenario whose hook adds a robot and a shape
ProcessHookAdds == {<<"Robot", "Shape">>}

NextProcess ==
    \/ \E adds \in ProcessHookAdds, rv \in HookReturns : Reset(adds, rv)
    \/ \E seed \in {NoneVal} \cup SeedVals : Seed(seed)
    \/ OtherEnvSeed
    \/ RegisterEnvs

SpecProcess == InitProcess /\ [][NextProcess]_vars

\* ------------------------------------- environment built from bad input
\* Environments built with a phys_steps that is no count of sub-steps, and
\* scenarios that build a Shape of a shape type Shape.setup has no branch
\* for (Shape.__init__ stores any shape_type it is given).
MaxBadPhysSteps == 1        \* phys_steps arguments run from -MaxBadPhysSteps to 1

ConfigHookAdds ==
    {<<"Robot", "Shape">>,
     <<"Robot", "ShapeOfUnknownType">>,
     <<"ShapeOfUnknownType", "Robot">>}

InitConfig ==
    \E k \in (0 - MaxBadPhysSteps)..1 :
        Constructed(1,
                    [phys_steps |-> k, fps |-> DefaultFps,
                     rand_dynamics |-> FALSE, res_hw |-> DefaultResHw],
                    FALSE)

NextConfig ==
    \/ \E adds \in ConfigHookAdds, rv \in HookReturns : Reset(adds, rv)
    \/ \E action \in StepActions : StepNoRobot(action)
    \/ \E action \in StepActions : Step(action)
    \/ \E mode \in RenderModes : RenderNoViewer(mode)
    \/ \E mode \in RenderModes : Render(mode)
    \/ Close

SpecConfig == InitConfig /\ [][NextConfig]_vars

\* ------------------------------- environment with entities as declared
\* The environment driving entities whose setup() has the parameter list
\* entities.py declares, (self, viewer, space): the call add_entities makes
\* with three arguments is refused when the arena is set up, on_reset() is
\* never reached, and no reset() gets as far as having a robot.
ResetAsDeclared(adds, rv) == ResetWith(adds, rv, EntitySetupParams, 0)

NextCall ==
    \/ \E adds \in HookAdds, rv \in HookReturns : ResetAsDeclared(adds, rv)
    \/ \E action \in StepActions : StepNoRobot(action)
    \/ \E mode \in RenderModes : RenderNoViewer(mode)
    \/ \E mode \in RenderModes : Render(mode)
    \/ Close

SpecCall == Init /\ [][NextCall]_vars

\* =============================================================== claims
CountEvents(ev) == Cardinality({i \in 1..Len(trace) : trace[i].ev = ev})

StepProgressed == last_call = "step" /\ robot # 0

RobotCount(ents) == Cardinality({i \in 1..Len(ents) : ents[i].kind = "Robot"})

C10_SetActionDecodesMovement ==
    last_call = "Robot.set_action" =>
        LET m == last_action.mask
            up == HasFlag(m, UP)
            down == HasFlag(m, DOWN)
            fresh == set_action(NewRobot(robot_st.radius), m)
        IN /\ (up /\ down) => robot_st.target_speed = 0
           /\ (~HasFlag(m, LEFT) /\ ~HasFlag(m, RIGHT)) => robot_st.rel_turn_angle = 0
           /\ (up /\ ~down) =>
                 /\ robot_st.target_speed = 4 * robot_st.radius
                 /\ robot_st.target_speed > 0
           /\ (down /\ ~up) =>
                 /\ robot_st.target_speed = 0 - 3 * robot_st.radius
                 /\ robot_st.target_speed < 0
                 /\ 0 - robot_st.target_speed < 4 * robot_st.radius
           /\ robot_st.target_speed = fresh.target_speed
           /\ robot_st.rel_turn_angle = fresh.rel_turn_angle

C10_Witness ==
    /\ last_call = "Robot.set_action"
    /\ last_action.mask = UP + DOWN + LEFT
    /\ robot_st.target_speed = 0
    /\ robot_st.rel_turn_angle = TurnStep
    /\ robot_st.radius = ROBOT_RAD

\* indices of the objects in the space that satisfy a test
NonStaticBodies ==
    {i \in 1..Len(space_objs) :
        space_objs[i].cls = "Body" /\ space_objs[i].body_type # "static"}
JointsOf(owners) ==
    {i \in 1..Len(space_objs) :
        space_objs[i].cls = "Joint" /\ space_objs[i].owner \in owners}
BodiesNamed(name, body_type) ==
    {i \in 1..Len(space_objs) :
        /\ space_objs[i].cls = "Body"
        /\ space_objs[i].name = name
        /\ space_objs[i].body_type = body_type}
StaticSegments ==
    {i \in 1..Len(space_objs) :
        space_objs[i].cls = "Shape" /\ space_objs[i].body_type = "static"}
EntitiesOfKind(kind) == {i \in 1..Len(entities) : entities[i].kind = kind}

PersistentDraws(f) == SelectSeq(f.drawn, LAMBDA d : d.geom.owner # 0)

BothRendersReturned ==
    /\ last_call = "render" /\ ret.kind = "obs"
    /\ last_call' = "render" /\ ret'.kind = "obs"

RECURSIVE ReplayResets(_, _)
ReplayResets(r, k) ==
    IF k = 0 THEN [vars |-> NoPhysVars, rng |-> r]
    ELSE reset_phys_vars(TRUE, ReplayResets(r, k - 1).rng)

\* C13: seed(s) with an explicit s returns [s] and leaves the environment
\* with the generator RandomState(s); an environment with rand_dynamics
\* that was seeded with s and has been reset k >= 1 times since holds the
\* PhysicsVariables, field for field, and the generator state that any
\* other environment seeded with s and reset k times holds, whatever else
\* happened in the process and whatever the scenarios' hooks did.
C13_SeedDeterminesDynamics ==
    /\ (last_call = "seed" /\ hist.seed_arg # NoneVal) =>
          /\ ret.kind = "value"
          /\ ret.value = <<hist.seed_arg>>
          /\ rng = RandomState(hist.seed_arg)
    /\ (rand_dynamics /\ hist.seed_arg # NoneVal /\ hist.resets_since_seed >= 1) =>
          LET twin == ReplayResets(RandomState(hist.seed_arg), hist.resets_since_seed)
          IN /\ phys_vars = twin.vars
             /\ rng = twin.rng
             /\ \A i \in 1..Len(phys_vars) :
                   PhysVarLows[i] <= phys_vars[i] /\ phys_vars[i] <= PhysVarHighs[i]

C13_Witness ==
    /\ last_call = "reset"
    /\ rand_dynamics
    /\ hist.seed_arg = 2
    /\ hist.resets_since_seed = 2
    /\ np_random = 3
    /\ phys_vars # PhysVarDefaults
    /\ phys_vars # ReplayResets(RandomState(2), 1).vars

\* C14: while an environment's generator is seeded without a seed argument,
\* its seed is the one it gets when it is the only environment of the
\* process (the value numpy's generator hands out for this environment's
\* own n-th draw), and so are the PhysicsVariables sampled from it: nothing
\* that another environment does changes them.
C14_NoSharedRandomState ==
    hist.seed_arg = NoneVal =>
        LET alone == RandomState(NpRandomDraw(hist.own_np_draws - 1))
        IN /\ rng.seed = alone.seed
           /\ (rand_dynamics /\ hist.resets_since_seed >= 1) =>
                 phys_vars = ReplayResets(alone, hist.resets_since_seed).vars

AllRegisteredNames ==
    {registered_env_names[i] : i \in 1..Len(registered_env_names)}
        \cup debug_env_names

\* C17: the first register_envs() call of a process returns True and leaves
\* every scenario name in gym's registry and every demo name, with its test
\* names, in DEMO_ENVS_TO_TEST_ENVS_MAP; every later call returns False
\* without raising, and registry and map stay exactly as the first call
\* left them; before the first call both are empty.
C17_RegisterEnvsIdempotent ==
    /\ (last_call = "register_envs" /\ hist.register_calls = 1) =>
          /\ ret.kind = "value"
          /\ ret.value = TRUE
    /\ (last_call = "register_envs" /\ hist.register_calls >= 2) =>
          /\ ret.kind = "value"
          /\ ret.value = FALSE
    /\ hist.register_calls >= 1 =>
          /\ registry.registered
          /\ registry.envs = AllRegisteredNames
          /\ registry.demo_to_test = train_to_test_map
          /\ DOMAIN registry.demo_to_test = observed_demo_envs
    /\ hist.register_calls = 0 => registry = NoRegistry

C17_Witness ==
    /\ last_call = "register_envs"
    /\ hist.register_calls = 2
    /\ ret.kind = "value"
    /\ ret.value = FALSE
    /\ reset_calls = 1
    /\ Cardinality(registry.envs) = 42
    /\ Cardinality(DOMAIN registry.demo_to_test) = 6

\* C15: the constructor of an environment given phys_steps <= 0 raises, and
\* a Shape of an unimplemented shape type fails where it is built: it never
\* gets into the entity list, and nothing of it into the space or the
\* viewer.  (Whether a resolution is valid is decided by gym's Box, which
\* the constructor hands res_hw to; it is not part of this statement.)
C15_ConfigErrorsFatalAtConstruction ==
    /\ (last_call = "__init__" /\ phys_steps <= 0) => ret.kind = "raise"
    /\ \A i \in 1..Len(entities) :
          /\ entities[i].kind # "ShapeOfUnknownType"
          /\ entities[i].kind \in {"ArenaBoundaries", "Robot", "Shape"}
    /\ \A j \in 1..Len(space_objs) :
          entities[space_objs[j].owner].kind # "ShapeOfUnknownType"
    /\ \A j \in 1..Len(viewer_st.geoms) :
          entities[viewer_st.geoms[j].owner].kind # "ShapeOfUnknownType"

SetupCalls(i) == {p \in 1..Len(trace) : trace[p].ev = "setup" /\ trace[p].ent = i}

\* C18: a reset() calls setup exactly once on every entity of the list it
\* leaves, each of them an entity of this reset and in the list when the
\* call is made, and no entity variant refuses the call (no TypeError);
\* step() and render() call no setup.
C18_SetupOncePerEntityAndAccepted ==
    /\ last_call = "reset" =>
          /\ \A i \in 1..Len(entities) :
                /\ Cardinality(SetupCalls(i)) = 1
                /\ entities[i].ep = reset_calls
          /\ \A p \in 1..Len(trace) :
                trace[p].ev = "setup" => trace[p].ent \in 1..Len(entities)
          /\ ~(ret.kind = "raise" /\ ret.exc = "TypeError")
    /\ last_call \in {"step", "render"} => CountEvents("setup") = 0

EventsAt(ev) == {p \in 1..Len(trace) : trace[p].ev = ev}

C21_FingerTargetFollowsGripperFlags ==
    [][LET m == last_action'.mask
           before == robot_st.target_finger_angle
           after == robot_st'.target_finger_angle
       IN /\ last_call' = "Robot.set_action" =>
                /\ HasFlag(m, OPEN) => after = finger_rot_limit_outer
                /\ (HasFlag(m, CLOSE) /\ ~HasFlag(m, OPEN)) =>
                       after = 0 - finger_rot_limit_inner
                /\ (~HasFlag(m, OPEN) /\ ~HasFlag(m, CLOSE)) => after = before
          /\ last_call' = "Robot.update" => after = before]_vars

C21_Witness ==
    /\ last_call = "Robot.set_action"
    /\ ~HasFlag(last_action.mask, OPEN)
    /\ ~HasFlag(last_action.mask, CLOSE)
    /\ HasFlag(last_action.mask, UP)
    /\ robot_st.target_finger_angle = 0 - finger_rot_limit_inner

\* C30: after a Robot.set_action call, LEFT with RIGHT gives turn rate 0,
\* LEFT alone +1.5 and RIGHT alone -1.5; OPEN with CLOSE gives the finger
\* target OPEN alone gives, the outward limit.
C30_ConflictingFlags ==
    last_call = "Robot.set_action" =>
        LET m == last_action.mask
            left == HasFlag(m, LEFT)
            right == HasFlag(m, RIGHT)
        IN /\ (left /\ right) => robot_st.rel_turn_angle = 0
           /\ (left /\ ~right) => robot_st.rel_turn_angle = 15
           /\ (right /\ ~left) => robot_st.rel_turn_angle = 0 - 15
           /\ (HasFlag(m, OPEN) /\ HasFlag(m, CLOSE)) =>
                 /\ robot_st.target_finger_angle = finger_rot_limit_outer
                 /\ robot_st.target_finger_angle =
                        set_action(robot_st, m - CLOSE).target_finger_angle

C30_Witness ==
    /\ last_call = "Robot.set_action"
    /\ last_action.mask = LEFT + RIGHT + OPEN + CLOSE
    /\ robot_st.rel_turn_angle = 0
    /\ robot_st.target_finger_angle = finger_rot_limit_outer
    /\ robot_st.radius = ROBOT_RAD

\* C25: after a Robot.update call each finger motor's rate lies in [-1, 1]
\* and is 10 times the finger's angle error cut off at -1 and at 1, or 0
\* when that value is smaller than 1e-4 in magnitude; the first finger's
\* error is its relative angle less the target, the second's its relative
\* angle plus the target.
C25_FingerMotorRateClamped ==
    last_call = "Robot.update" =>
        LET target == robot_st.target_finger_angle * AngleUnit
            error == <<robot_st.finger_rel_angle[1] - target,
                       robot_st.finger_rel_angle[2] + target>>
        IN \A k \in 1..2 :
              LET rate == robot_st.finger_motor_rate[k]
                  scaled == 10 * error[k]
                  clamped == IF scaled > 1000000 THEN 1000000
                             ELSE IF scaled < 0 - 1000000 THEN 0 - 1000000
                             ELSE scaled
              IN /\ 0 - 1000000 <= rate
                 /\ rate <= 1000000
                 /\ rate = IF 0 - 100 < clamped /\ clamped < 100
                           THEN 0 ELSE clamped

\* one finger's rate cut off at 1, the other's snapped to 0, while the
\* target is the inward limit
C25_Witness ==
    /\ last_call = "Robot.update"
    /\ robot_st.target_finger_angle = 0 - finger_rot_limit_inner
    /\ robot_st.finger_rel_angle = <<0, AngleUnit - 5>>
    /\ robot_st.finger_motor_rate = <<1000000, 0>>

GeomsDrawn(f) == [i \in 1..Len(f.drawn) |-> f.drawn[i].geom]

ViewerRendersNext == \E p \in 1..Len(trace') : trace'[p].ev = "viewer.render"

LimitedJoints ==
    [pos_control_joint |-> 1, rot_control_joint |-> 2, finger_motor |-> 3,
     trans_joint |-> 4, rot_joint |-> 5]

EpisodeOver ==
    /\ robot # 0
    /\ max_episode_steps # NoneVal
    /\ episode_steps >= max_episode_steps

GeomsOwnedBy(i) == {g \in 1..Len(viewer_st.geoms) : viewer_st.geoms[g].owner = i}

EventsNext(ev) == {p \in 1..Len(trace') : trace'[p].ev = ev}

====
